---- MODULE Spec2Model ----
(***************************************************************************)
(* Model of the BM25 scorer (lance-index scalar/inverted/scorer.rs), its   *)
(* Python binding (python/src/indices/inverted.rs: PyBM25Scorer and        *)
(* PyInvertedIndex::fuzzy_nq) and the JNI record batch stream adaptor      *)
(* (lance-io/src/ffi.rs).                                                  *)
(*                                                                         *)
(* f32 values are modelled by their IEEE-754 cases: NaN, the infinities    *)
(* and the finite values, a finite value being an exact rational or a      *)
(* rational multiple of a natural logarithm.  Rounding to 24 bits of       *)
(* mantissa is not modelled.  usize counts stay far below 2^64.            *)
(***************************************************************************)
EXTENDS Integers, Sequences, FiniteSets, TLC

VARIABLES
    handles,   \* SpecMerge: the three PyBM25Scorer objects handed to merge
    scorer,    \* SpecScorer: the BM25Scorer the calls are made on
    call,      \* the last call made on the scorer API and what it returned
    fuzzy,     \* SpecFuzzy: the last PyInvertedIndex::fuzzy_nq call
    stream,    \* SpecJni: the schema of the wrapped RecordBatchStream
    taken,     \* SpecJni: how many items the wrapped stream yielded, and the last
    emitted,   \* SpecJni: how many items next() returned, and the last
    jni        \* SpecJni: "running", "ended" or "panicked"

vars == <<handles, scorer, call, fuzzy, stream, taken, emitted, jni>>

----------------------------------------------------------------------------
(* f32 arithmetic                                                          *)

Abs(i) == IF i < 0 THEN -i ELSE i

Sgn(i) == IF i < 0 THEN -1 ELSE IF i = 0 THEN 0 ELSE 1

RECURSIVE Gcd(_, _)
Gcd(a, b) == IF b = 0 THEN a ELSE Gcd(b, a % b)

\* The f32 values.  k = "fin": the rational n/d (d > 0, lowest terms).
\* k = "ln": (n/d) * ln(an/ad), n # 0, an # ad.  k = "inf": sign n.
NaN == [k |-> "nan", n |-> 0, d |-> 0, an |-> 0, ad |-> 0]

Inf(s) == [k |-> "inf", n |-> s, d |-> 0, an |-> 0, ad |-> 0]

Fin(n, d) ==
    LET g == Gcd(Abs(n), Abs(d))
        s == IF d < 0 THEN -1 ELSE 1
    IN  [k |-> "fin", n |-> (s * n) \div g, d |-> (s * d) \div g, an |-> 0, ad |-> 0]

\* usize as f32
AsF32(i) == Fin(i, 1)

\* The sign of a value that is not NaN: -1, 0 or 1.
FSign(x) ==
    CASE x.k = "inf" -> x.n
      [] x.k = "fin" -> Sgn(x.n)
      [] x.k = "ln"  -> Sgn(x.n) * (IF x.an > x.ad THEN 1 ELSE -1)

FAdd(x, y) ==
    CASE x.k = "nan" \/ y.k = "nan" -> NaN
      [] x.k = "inf" /\ y.k = "inf" -> IF x.n = y.n THEN x ELSE NaN
      [] x.k = "inf" -> x
      [] y.k = "inf" -> y
      [] x.k = "fin" /\ y.k = "fin" -> Fin(x.n * y.d + y.n * x.d, x.d * y.d)

FNeg(x) ==
    CASE x.k = "nan" -> NaN
      [] x.k = "inf" -> Inf(-x.n)
      [] x.k = "fin" -> Fin(-x.n, x.d)
      [] x.k = "ln"  -> [x EXCEPT !.n = -x.n]

FSub(x, y) == FAdd(x, FNeg(y))

FMul(x, y) ==
    CASE x.k = "nan" \/ y.k = "nan" -> NaN
      [] x.k = "inf" \/ y.k = "inf" ->
            IF FSign(x) = 0 \/ FSign(y) = 0 THEN NaN ELSE Inf(FSign(x) * FSign(y))
      [] x.k = "fin" /\ y.k = "fin" -> Fin(x.n * y.n, x.d * y.d)
      [] x.k = "ln" /\ y.k = "fin" ->
            IF y.n = 0 THEN Fin(0, 1)
            ELSE LET c == Fin(x.n * y.n, x.d * y.d)
                 IN  [x EXCEPT !.n = c.n, !.d = c.d]
      [] x.k = "fin" /\ y.k = "ln" ->
            IF x.n = 0 THEN Fin(0, 1)
            ELSE LET c == Fin(x.n * y.n, x.d * y.d)
                 IN  [y EXCEPT !.n = c.n, !.d = c.d]

\* Every zero divisor of the model is a +0.0 (a quotient or sum of
\* non-negative values), so x / 0 takes the sign of x.
FDiv(x, y) ==
    CASE x.k = "nan" \/ y.k = "nan" -> NaN
      [] x.k = "inf" /\ y.k = "inf" -> NaN
      [] x.k = "inf" -> Inf(x.n * (IF FSign(y) < 0 THEN -1 ELSE 1))
      [] y.k = "inf" -> Fin(0, 1)
      [] x.k = "fin" /\ y.k = "fin" ->
            IF y.n = 0
            THEN IF x.n = 0 THEN NaN ELSE Inf(Sgn(x.n))
            ELSE Fin(x.n * y.d, x.d * y.n)

\* f32::ln
FLn(x) ==
    CASE x.k = "nan" -> NaN
      [] x.k = "inf" -> IF x.n > 0 THEN x ELSE NaN
      [] x.k = "fin" ->
            IF x.n < 0 THEN NaN
            ELSE IF x.n = 0 THEN Inf(-1)
            ELSE IF x.n = x.d THEN Fin(0, 1)
            ELSE [k |-> "ln", n |-> 1, d |-> 1, an |-> x.n, ad |-> x.d]

\* x >= 0.0 as f32 comparison: false for NaN.
FNonNeg(x) == x.k # "nan" /\ FSign(x) >= 0

\* x <= y as f32 comparison: false when either is NaN.  Two "ln" values are
\* only ever compared when they carry the same logarithm.
FLeq(x, y) ==
    CASE x.k = "nan" \/ y.k = "nan" -> FALSE
      [] x.k = "inf" -> x.n < 0 \/ (y.k = "inf" /\ y.n > 0)
      [] y.k = "inf" -> y.n > 0
      [] x.k = "fin" /\ y.k = "fin" -> x.n * y.d <= y.n * x.d
      [] x.k = "ln" /\ y.k = "ln" /\ x.an = y.an /\ x.ad = y.ad ->
            IF x.an > x.ad THEN x.n * y.d <= y.n * x.d
            ELSE y.n * x.d <= x.n * y.d
      [] x.k = "ln" /\ y.k = "fin" /\ y.n = 0 -> FSign(x) <= 0
      [] x.k = "fin" /\ x.n = 0 /\ y.k = "ln" -> FSign(y) >= 0

\* PartialEq of f32: NaN is equal to nothing, itself included.
FEq(x, y) == x.k # "nan" /\ y.k # "nan" /\ x = y

----------------------------------------------------------------------------
(* BM25Scorer                                                              *)

Tokens == {"x", "y"}

\* BM25 parameters K1 = 1.2 and B = 0.75
K1 == Fin(6, 5)

B == Fin(3, 4)

One == Fin(1, 1)

Half == Fin(1, 2)

\* BM25Scorer::new
New(nqs, num_docs, num_tokens) ==
    [nqs |-> nqs, num_docs |-> num_docs, num_tokens |-> num_tokens,
     avgdl |-> FDiv(AsF32(num_tokens), AsF32(num_docs))]

\* nq with the default of a missing token taken as 0
NqDefaultZero(s, token) == IF token \in DOMAIN s.nqs THEN s.nqs[token] ELSE 0

\* BM25Scorer::nq: the number of documents that contain the token
Nq(s, token) == IF token \in DOMAIN s.nqs THEN s.nqs[token] ELSE 1

\* or_insert(1) in place of or_insert(0)
AddEntryFromOne(nqs, token, nq) ==
    [t \in DOMAIN nqs \cup {token} |->
        IF t = token
        THEN (IF token \in DOMAIN nqs THEN nqs[token] ELSE 1) + nq
        ELSE nqs[t]]

\* *nqs.entry(token.clone()).or_insert(0) += nq
AddEntry(nqs, token, nq) ==
    [t \in DOMAIN nqs \cup {token} |->
        IF t = token
        THEN (IF token \in DOMAIN nqs THEN nqs[token] ELSE 0) + nq
        ELSE nqs[t]]

\* for (token, nq) in scorer.nqs.iter(): the entries still to visit are todo
RECURSIVE AddEntries(_, _, _)
AddEntries(nqs, src, todo) ==
    IF todo = {} THEN nqs
    ELSE LET token == CHOOSE t \in todo : TRUE
         IN  AddEntries(AddEntry(nqs, token, src[token]), src, todo \ {token})

\* A merge that keeps the average length of the first scorer that has one
\* rather than dividing the summed counts
RECURSIVE MergeLoopKeepAvgdl(_, _, _, _, _)
MergeLoopKeepAvgdl(scorers, i, nqs, num_docs, num_tokens) ==
    IF i > Len(scorers)
    THEN [New(nqs, num_docs, num_tokens) EXCEPT
            !.avgdl = IF Len(scorers) = 0 THEN @ ELSE scorers[1].avgdl]
    ELSE MergeLoopKeepAvgdl(scorers, i + 1,
                   AddEntries(nqs, scorers[i].nqs, DOMAIN scorers[i].nqs),
                   num_docs + scorers[i].num_docs,
                   num_tokens + scorers[i].num_tokens)

\* for scorer in scorers, from position i on
RECURSIVE MergeLoop(_, _, _, _, _)
MergeLoop(scorers, i, nqs, num_docs, num_tokens) ==
    IF i > Len(scorers) THEN New(nqs, num_docs, num_tokens)
    ELSE MergeLoop(scorers, i + 1,
                   AddEntries(nqs, scorers[i].nqs, DOMAIN scorers[i].nqs),
                   num_docs + scorers[i].num_docs,
                   num_tokens + scorers[i].num_tokens)

\* <BM25Scorer as Scorer>::merge
Merge(scorers) == MergeLoop(scorers, 1, <<>>, 0, 0)

\* idf(nq, num_docs)
Idf(nq, num_docs) ==
    FLn(FAdd(FDiv(FAdd(FSub(AsF32(num_docs), AsF32(nq)), Half),
                  FAdd(AsF32(nq), Half)),
             One))

\* <BM25Scorer as Scorer>::query_weight
QueryWeight(s, token) ==
    LET nq == Nq(s, token)
    IN  IF nq = 0 THEN Fin(0, 1) ELSE Idf(nq, s.num_docs)

\* <BM25Scorer as Scorer>::doc_weight
DocWeight(s, freq, doc_tokens) ==
    LET f == AsF32(freq)
        dt == AsF32(doc_tokens)
        doc_norm == FMul(K1, FAdd(FSub(One, B), FDiv(FMul(B, dt), s.avgdl)))
    IN  FDiv(FMul(FAdd(K1, One), f), FAdd(f, doc_norm))

\* Scorer::score
Score(s, token, freq, doc_tokens) ==
    FMul(QueryWeight(s, token), DocWeight(s, freq, doc_tokens))

----------------------------------------------------------------------------
(* serde_json text of a BM25Scorer (derive(Serialize, Deserialize))        *)

\* A JSON text is read as the value it denotes; Garbage is a text that is
\* not JSON at all.
Garbage == [t |-> "garbage"]

JNull == [t |-> "null"]

JStr == [t |-> "str"]

JInt(v) == [t |-> "int", v |-> v]

JFloat(f) == [t |-> "float", f |-> f]

JObj(m) == [t |-> "obj", m |-> m]

Fields == {"nqs", "num_docs", "num_tokens", "avgdl"}

\* serde_json writes a NaN or an infinite f32 as null, a finite one as the
\* shortest decimal that reads back as the same f32.
SerF32(x) == IF x.k = "fin" THEN JFloat(x) ELSE JNull

\* PyBM25Scorer::to_json
ToJson(s) ==
    JObj([f \in Fields |->
            CASE f = "nqs" -> JObj([t \in DOMAIN s.nqs |-> JInt(s.nqs[t])])
              [] f = "num_docs" -> JInt(s.num_docs)
              [] f = "num_tokens" -> JInt(s.num_tokens)
              [] f = "avgdl" -> SerF32(s.avgdl)])

Ok(v) == [ok |-> TRUE, v |-> v]

Err(reason) == [ok |-> FALSE, err |-> reason]

\* usize from a JSON value
DeUsize(j) ==
    IF j.t = "int"
    THEN (IF j.v >= 0 THEN Ok(j.v) ELSE Err("invalid value"))
    ELSE Err("invalid type")

\* f32 from a JSON value: any number, never null
DeF32(j) ==
    CASE j.t = "int" -> Ok(AsF32(j.v))
      [] j.t = "float" -> Ok(j.f)
      [] OTHER -> Err("invalid type")

\* HashMap<String, usize> from a JSON value
DeNqs(j) ==
    IF j.t # "obj" THEN Err("invalid type")
    ELSE IF \E t \in DOMAIN j.m : ~DeUsize(j.m[t]).ok
         THEN DeUsize(j.m[CHOOSE t \in DOMAIN j.m : ~DeUsize(j.m[t]).ok])
         ELSE Ok([t \in DOMAIN j.m |-> DeUsize(j.m[t]).v])

DeField(f, j) ==
    CASE f = "nqs" -> DeNqs(j)
      [] f = "num_docs" -> DeUsize(j)
      [] f = "num_tokens" -> DeUsize(j)
      [] f = "avgdl" -> DeF32(j)

\* Deserialize as it would be with #[serde(default)] on the struct: a field
\* the text lacks takes its Default value
DeserializeDefaulting(text) ==
    IF text.t = "garbage" THEN Err("syntax error")
    ELSE IF text.t # "obj" THEN Err("invalid type")
    ELSE IF \E f \in DOMAIN text.m \cap Fields : ~DeField(f, text.m[f]).ok
    THEN Err("invalid type")
    ELSE Ok([f \in Fields |->
                IF f \in DOMAIN text.m THEN DeField(f, text.m[f]).v
                ELSE IF f = "nqs" THEN [t \in {} |-> 0]
                ELSE IF f = "avgdl" THEN Fin(0, 1)
                ELSE 0])

\* serde_json::from_str::<BM25Scorer>: the fields of the text are stored as
\* read, avgdl included; no field has a serde default.
Deserialize(text) ==
    IF text.t = "garbage" THEN Err("syntax error")
    ELSE IF text.t # "obj" THEN Err("invalid type")
    ELSE IF \E f \in DOMAIN text.m \cap Fields : ~DeField(f, text.m[f]).ok
    THEN DeField(CHOOSE f \in DOMAIN text.m \cap Fields : ~DeField(f, text.m[f]).ok,
                 text.m[CHOOSE f \in DOMAIN text.m \cap Fields : ~DeField(f, text.m[f]).ok])
    ELSE IF ~(Fields \subseteq DOMAIN text.m) THEN Err("missing field")
    ELSE Ok([f \in Fields |-> DeField(f, text.m[f]).v])

\* PyBM25Scorer::from_json: the scorer, or a ValueError carrying the reason
FromJson(text) ==
    LET r == Deserialize(text)
    IN  IF r.ok
        THEN Ok([nqs |-> r.v["nqs"], num_docs |-> r.v["num_docs"],
                 num_tokens |-> r.v["num_tokens"], avgdl |-> r.v["avgdl"]])
        ELSE Err(r.err)

----------------------------------------------------------------------------
(* Inputs                                                                  *)

MaxNq == 1

MaxDocs == 1

MaxTokens == 2

MaxFreq == 2

MaxDocTokens == 2

\* The HashMap<String, usize> values given to BM25Scorer::new
NqMaps == UNION {[D -> 0..MaxNq] : D \in SUBSET Tokens}

\* The scorers BM25Scorer::new builds from the inputs
NewScorers ==
    {New(m, nd, nt) : m \in NqMaps, nd \in 0..MaxDocs, nt \in 0..MaxTokens}

\* A scorer small enough to be merged once more within the bounds
InBounds(s) ==
    /\ s.num_docs <= MaxDocs
    /\ s.num_tokens <= MaxTokens
    /\ \A t \in DOMAIN s.nqs : s.nqs[t] <= MaxNq

\* What a text handed to from_json may be, given the text to_json wrote:
\* that text, a text that is no JSON, a JSON value that is no object, the
\* object less one field, or the object with one field's value replaced.
BadValues == {JNull, JStr, JInt(-1), JInt(7), JFloat(Fin(1, 2)), JObj([t \in {"x"} |-> JStr])}

Texts(text) ==
    {text, Garbage, JNull, JStr}
    \cup {JObj([f \in Fields \ {g} |-> text.m[f]]) : g \in Fields}
    \cup {JObj([text.m EXCEPT ![g] = v]) : g \in Fields, v \in BadValues}

FuzzyIdle == fuzzy = [op |-> "none"]

JniIdle ==
    /\ stream = <<>>
    /\ taken = [n |-> 0]
    /\ emitted = [n |-> 0]
    /\ jni = "idle"

----------------------------------------------------------------------------
(* SpecScorer: one scorer, built by new or merge, and the calls made on it *)

InitScorer ==
    /\ scorer \in NewScorers
    /\ call = [op |-> "new"]
    /\ handles = <<>>
    /\ FuzzyIdle
    /\ JniIdle

\* The scorer has just been built; each call below is made on a scorer as
\* built and its result is kept in call.
Built == call.op \in {"new", "merge"}

\* PyBM25Scorer::merge of the scorer and one more
MergeWith(o) ==
    /\ Built
    /\ InBounds(scorer)
    /\ scorer' = Merge(<<scorer, o>>)
    /\ call' = [op |-> "merge"]

\* PyBM25Scorer::merge of the empty list
MergeNone ==
    /\ Built
    /\ scorer' = Merge(<<>>)
    /\ call' = [op |-> "merge"]

\* PyBM25Scorer::to_json
CallToJson ==
    /\ Built
    /\ call' = [op |-> "to_json", text |-> ToJson(scorer)]
    /\ UNCHANGED scorer

\* PyBM25Scorer::from_json of a text derived from the one to_json wrote
CallFromJson(text) ==
    /\ call.op = "to_json"
    /\ text \in Texts(call.text)
    /\ call' = [op |-> "from_json", text |-> text, ret |-> FromJson(text)]
    /\ UNCHANGED scorer

\* <BM25Scorer as Scorer>::query_weight
CallQueryWeight(token) ==
    /\ Built
    /\ call' = [op |-> "query_weight", token |-> token,
                ret |-> QueryWeight(scorer, token)]
    /\ UNCHANGED scorer

\* PyBM25Scorer::score
CallScore(token, freq, doc_tokens) ==
    /\ Built
    /\ call' = [op |-> "score", token |-> token, freq |-> freq,
                doc_tokens |-> doc_tokens,
                ret |-> Score(scorer, token, freq, doc_tokens)]
    /\ UNCHANGED scorer

NextScorer ==
    /\ \/ \E o \in NewScorers : MergeWith(o)
       \/ MergeNone
       \/ CallToJson
       \/ \E text \in Texts(ToJson(scorer)) : CallFromJson(text)
       \/ \E token \in Tokens : CallQueryWeight(token)
       \/ \E token \in Tokens, freq \in 0..MaxFreq, doc_tokens \in 0..MaxDocTokens :
              CallScore(token, freq, doc_tokens)
    /\ UNCHANGED <<handles, fuzzy, stream, taken, emitted, jni>>

SpecScorer == InitScorer /\ [][NextScorer]_vars

----------------------------------------------------------------------------
(* SpecMerge: three scorers and the merges of them                         *)

\* (num_docs, num_tokens) of the scorers that are merged
Corpora == {<<0, 2>>, <<2, 3>>}

\* Their token counts: a token is stored with the number of documents that
\* hold it, or not stored
PartNqMaps == UNION {[D -> 1..MaxNq] : D \in SUBSET Tokens}

PartScorers == {New(m, c[1], c[2]) : m \in PartNqMaps, c \in Corpora}

\* The argument lists: every list of distinct handles, in every order
MergeLists ==
    {l \in UNION {[1..n -> 1..3] : n \in 0..3} :
        \A i, j \in DOMAIN l : i # j => l[i] # l[j]}

Perms == {l \in MergeLists : Len(l) = 3}

InitMerge ==
    /\ handles \in [1..3 -> PartScorers]
    /\ call = [op |-> "none"]
    /\ scorer = Merge(<<>>)
    /\ FuzzyIdle
    /\ JniIdle

\* PyBM25Scorer::merge(scorers): args are the positions in handles of the
\* scorers passed, in the order passed
MergeFlat(args) ==
    /\ call.op = "none"
    /\ call' = [op |-> "merge", shape |-> "flat", args |-> args,
                ret |-> Merge([i \in 1..Len(args) |-> handles[args[i]]])]
    /\ UNCHANGED handles

\* merge([merge([a, b]), c]): a partial merge merged with one more
MergeLeft(p) ==
    /\ call.op = "none"
    /\ call' = [op |-> "merge", shape |-> "left", args |-> p,
                ret |-> Merge(<<Merge(<<handles[p[1]], handles[p[2]]>>),
                                handles[p[3]]>>)]
    /\ UNCHANGED handles

\* merge([a, merge([b, c])])
MergeRight(p) ==
    /\ call.op = "none"
    /\ call' = [op |-> "merge", shape |-> "right", args |-> p,
                ret |-> Merge(<<handles[p[1]],
                                Merge(<<handles[p[2]], handles[p[3]]>>)>>)]
    /\ UNCHANGED handles

NextMerge ==
    /\ \/ \E args \in MergeLists : MergeFlat(args)
       \/ \E p \in Perms : MergeLeft(p)
       \/ \E p \in Perms : MergeRight(p)
    /\ UNCHANGED <<scorer, fuzzy, stream, taken, emitted, jni>>

SpecMerge == InitMerge /\ [][NextMerge]_vars

----------------------------------------------------------------------------
(* Properties of merge (SpecMerge)                                         *)

\* The count a scorer stores for a token, 0 when it stores none
Stored(s, t) == IF t \in DOMAIN s.nqs THEN s.nqs[t] ELSE 0

\* The scorers passed by the last merge call
Passed == [i \in 1..Len(call.args) |-> handles[call.args[i]]]

RECURSIVE SumStored(_, _, _)
SumStored(ss, t, i) == IF i = 0 THEN 0 ELSE Stored(ss[i], t) + SumStored(ss, t, i - 1)

RECURSIVE SumDocs(_, _)
SumDocs(ss, i) == IF i = 0 THEN 0 ELSE ss[i].num_docs + SumDocs(ss, i - 1)

RECURSIVE SumTokens(_, _)
SumTokens(ss, i) == IF i = 0 THEN 0 ELSE ss[i].num_tokens + SumTokens(ss, i - 1)

ExampleA == New([t \in {"x"} |-> 2], 5, 50)

ExampleB == New([t \in {"x", "y"} |-> IF t = "x" THEN 1 ELSE 3], 5, 60)

\* C1: merge of a list of scorers stores for a token the sum of the counts
\* the inputs store for it (an input that does not store it adds 0), stores
\* no token that no input stores, and sums num_docs and num_tokens; A={x:2},
\* 5,50 and B={x:1,y:3},5,60 merge to {x:3,y:3},10,110 with avgdl 11.
C1_MergeSums ==
    /\ (call.op = "merge" /\ call.shape = "flat") =>
          /\ \A t \in Tokens :
                /\ t \in DOMAIN call.ret.nqs <=>
                      \E i \in 1..Len(Passed) : t \in DOMAIN Passed[i].nqs
                /\ t \in DOMAIN call.ret.nqs =>
                      call.ret.nqs[t] = SumStored(Passed, t, Len(Passed))
          /\ DOMAIN call.ret.nqs \subseteq Tokens
          /\ call.ret.num_docs = SumDocs(Passed, Len(Passed))
          /\ call.ret.num_tokens = SumTokens(Passed, Len(Passed))
    /\ LET m == Merge(<<ExampleA, ExampleB>>)
       IN  /\ DOMAIN m.nqs = {"x", "y"}
           /\ m.nqs["x"] = 3
           /\ m.nqs["y"] = 3
           /\ m.num_docs = 10
           /\ m.num_tokens = 110
           /\ m.avgdl = Fin(11, 1)

\* A merge of two scorers of which only the second stores "x", a third
\* token-less scorer aside: the result stores "x" with the second's count.
C1_Witness ==
    /\ call.op = "merge"
    /\ call.shape = "flat"
    /\ Len(call.args) = 2
    /\ "x" \notin DOMAIN Passed[1].nqs
    /\ "x" \in DOMAIN Passed[2].nqs
    /\ "y" \in DOMAIN Passed[1].nqs
    /\ call.ret.nqs["x"] = Passed[2].nqs["x"]
    /\ call.ret.num_docs = 4

\* C2: merge is associative and commutative: the three scorers merged in
\* any order, in one call or as merge([merge([a,b]),c]) or
\* merge([a,merge([b,c])]), give the same nqs, num_docs, num_tokens and avgdl.
C2_MergeAssocComm ==
    (call.op = "merge" /\ Len(call.args) = 3) =>
        /\ call.ret = Merge(<<handles[1], handles[2], handles[3]>>)
        /\ call.ret = Merge(<<Merge(<<handles[1], handles[2]>>), handles[3]>>)
        /\ call.ret = Merge(<<handles[1], Merge(<<handles[2], handles[3]>>)>>)

\* A grouped merge in an order other than the handles', of three different
\* scorers: different corpora, "x" stored by two of them, "y" by one.
C2_Witness ==
    /\ call.op = "merge"
    /\ call.shape = "right"
    /\ call.args = <<3, 1, 2>>
    /\ handles[1] # handles[2]
    /\ handles[2] # handles[3]
    /\ handles[1] # handles[3]
    /\ handles[1].num_docs # handles[2].num_docs
    /\ "x" \in DOMAIN handles[1].nqs
    /\ "x" \in DOMAIN handles[3].nqs
    /\ "x" \notin DOMAIN handles[2].nqs
    /\ "y" \in DOMAIN handles[2].nqs
    /\ call.ret.nqs["x"] = handles[1].nqs["x"] + handles[3].nqs["x"]

----------------------------------------------------------------------------
(* Properties of one scorer (SpecScorer)                                   *)

\* derive(PartialEq) of BM25Scorer
ScorerEq(a, b) ==
    /\ a.nqs = b.nqs
    /\ a.num_docs = b.num_docs
    /\ a.num_tokens = b.num_tokens
    /\ FEq(a.avgdl, b.avgdl)

\* C3: from_json of the text to_json wrote gives a scorer equal to the
\* original, for every scorer built by new or merge, an empty nqs and
\* num_docs = 0 included.
C3_RoundTrip ==
    (call.op = "from_json" /\ call.text = ToJson(scorer)) =>
        (call.ret.ok /\ ScorerEq(call.ret.v, scorer))

\* The avgdl a scorer's counts give
AvgdlOf(s) == FDiv(AsF32(s.num_tokens), AsF32(s.num_docs))

\* C4: every scorer got from new, merge or from_json has
\* avgdl = num_tokens / num_docs.
C4_AvgdlDerived ==
    /\ scorer.avgdl = AvgdlOf(scorer)
    /\ (call.op = "from_json" /\ call.ret.ok) =>
          call.ret.v.avgdl = AvgdlOf(call.ret.v)

\* C5: score is non-negative and does not decrease when freq grows, for
\* every scorer built by new or merge, every token and every doc_tokens.
C5_ScoreNonNegMonotone ==
    call.op = "score" =>
        /\ FNonNeg(call.ret)
        /\ FLeq(call.ret, Score(scorer, call.token, call.freq + 1, call.doc_tokens))

\* C6: query_weight of a token the scorer does not store is idf(1, num_docs),
\* of a token stored with count 0 is exactly 0, and otherwise
\* idf(stored count, num_docs).
C6_QueryWeightCases ==
    call.op = "query_weight" =>
        call.ret = IF call.token \notin DOMAIN scorer.nqs
                   THEN Idf(1, scorer.num_docs)
                   ELSE IF scorer.nqs[call.token] = 0
                   THEN Fin(0, 1)
                   ELSE Idf(scorer.nqs[call.token], scorer.num_docs)

\* query_weight of a token the scorer does not store, on a scorer that
\* stores the other token with count 0 and has a document: ln(4/3).
C6_Witness ==
    /\ call.op = "query_weight"
    /\ call.token \notin DOMAIN scorer.nqs
    /\ \E t \in DOMAIN scorer.nqs : scorer.nqs[t] = 0
    /\ scorer.num_docs = 1
    /\ call.ret = FLn(Fin(4, 3))

\* A field's JSON value that is not of the field's type
WrongType(f, j) ==
    CASE f = "nqs" ->
            \/ j.t # "obj"
            \/ \E t \in DOMAIN j.m : ~(j.m[t].t = "int" /\ j.m[t].v >= 0)
      [] f \in {"num_docs", "num_tokens"} -> ~(j.t = "int" /\ j.v >= 0)
      [] f = "avgdl" -> j.t \notin {"int", "float"}

\* Not valid JSON, or a field missing, or a field of the wrong type
Malformed(text) ==
    \/ text.t # "obj"
    \/ \E f \in Fields : f \notin DOMAIN text.m \/ WrongType(f, text.m[f])

ParseReasons == {"syntax error", "invalid type", "invalid value", "missing field"}

\* C7: from_json of a malformed text returns an error carrying the parse
\* failure reason and no scorer.
C7_MalformedRejected ==
    (call.op = "from_json" /\ Malformed(call.text)) =>
        (~call.ret.ok /\ call.ret.err \in ParseReasons)

\* from_json of a text whose only defect is that num_docs is missing
C7_Witness ==
    /\ call.op = "from_json"
    /\ call.text.t = "obj"
    /\ DOMAIN call.text.m = Fields \ {"num_docs"}
    /\ \A f \in DOMAIN call.text.m : ~WrongType(f, call.text.m[f])
    /\ ~call.ret.ok
    /\ call.ret.err = "missing field"

----------------------------------------------------------------------------
(* PyInvertedIndex::fuzzy_nq (SpecFuzzy)                                   *)

MaxParam == 2

\* max_expansions.unwrap_or(50)
DefaultMaxExpansions == 50

\* fuzziness.unwrap_or(Some(0))
DefaultFuzziness == 0

\* prefix_length.unwrap_or(0)
DefaultPrefixLength == 0

\* Python objects a params dict may hold
PyNone == [ty |-> "none", v |-> 0]

PyStr == [ty |-> "str", v |-> 0]

PyInt(v) == [ty |-> "int", v |-> v]

PyValues == {PyNone, PyStr} \cup {PyInt(v) : v \in -1..MaxParam}

ParamKeys == {"max_expansions", "fuzziness", "prefix_length"}

PyDicts == UNION {[D -> PyValues] : D \in SUBSET ParamKeys}

\* Option<T>
Some(v) == [some |-> TRUE, v |-> v]

None == [some |-> FALSE]

UnwrapOr(o, default) == IF o.some THEN o.v ELSE default

\* extract::<usize>() and extract::<u32>() of a Python object: an int that
\* is not negative, else OverflowError; TypeError for what is no int
ExtractUnsigned(o) ==
    IF o.ty = "int"
    THEN (IF o.v >= 0 THEN Ok(o.v) ELSE Err("OverflowError"))
    ELSE Err("TypeError")

\* extract::<Option<u32>>(): Python None is Rust None
ExtractOptU32(o) ==
    IF o.ty = "none" THEN Ok(None)
    ELSE LET r == ExtractUnsigned(o)
         IN  IF r.ok THEN Ok(Some(r.v)) ELSE r

\* params.get_item(key)?
GetItem(d, key) == IF key \in DOMAIN d THEN Some(d[key]) ELSE None

\* .map(|v| v.extract::<usize>()).transpose(), and the same for u32
MapExtractUnsigned(item) ==
    IF item.some
    THEN LET r == ExtractUnsigned(item.v)
         IN  IF r.ok THEN Ok(Some(r.v)) ELSE r
    ELSE Ok(None)

\* .map(|v| v.extract::<Option<u32>>()).transpose()
MapExtractOptU32(item) ==
    IF item.some
    THEN LET r == ExtractOptU32(item.v)
         IN  IF r.ok THEN Ok(Some(r.v)) ELSE r
    ELSE Ok(None)

\* The closure with a prefix_length that cannot be extracted taken as absent
FtsParamsOfLenient(d) ==
    LET me == MapExtractUnsigned(GetItem(d, "max_expansions"))
        fu == MapExtractOptU32(GetItem(d, "fuzziness"))
        pl == MapExtractUnsigned(GetItem(d, "prefix_length"))
    IN  IF ~me.ok THEN me
        ELSE IF ~fu.ok THEN fu
        ELSE Ok([max_expansions |-> UnwrapOr(me.v, DefaultMaxExpansions),
                 fuzziness |-> UnwrapOr(fu.v, Some(DefaultFuzziness)),
                 prefix_length |-> IF pl.ok THEN UnwrapOr(pl.v, DefaultPrefixLength)
                                   ELSE DefaultPrefixLength])

\* The closure with fuzziness.unwrap_or(None)
FtsParamsOfAutoFuzziness(d) ==
    LET me == MapExtractUnsigned(GetItem(d, "max_expansions"))
        fu == MapExtractOptU32(GetItem(d, "fuzziness"))
        pl == MapExtractUnsigned(GetItem(d, "prefix_length"))
    IN  IF ~me.ok THEN me
        ELSE IF ~fu.ok THEN fu
        ELSE IF ~pl.ok THEN pl
        ELSE Ok([max_expansions |-> UnwrapOr(me.v, DefaultMaxExpansions),
                 fuzziness |-> UnwrapOr(fu.v, None),
                 prefix_length |-> UnwrapOr(pl.v, DefaultPrefixLength)])

\* The closure that builds FtsSearchParams from the params dict; each `?`
\* returns the first extraction error
FtsParamsOf(d) ==
    LET me == MapExtractUnsigned(GetItem(d, "max_expansions"))
        fu == MapExtractOptU32(GetItem(d, "fuzziness"))
        pl == MapExtractUnsigned(GetItem(d, "prefix_length"))
    IN  IF ~me.ok THEN me
        ELSE IF ~fu.ok THEN fu
        ELSE IF ~pl.ok THEN pl
        ELSE Ok([max_expansions |-> UnwrapOr(me.v, DefaultMaxExpansions),
                 fuzziness |-> UnwrapOr(fu.v, Some(DefaultFuzziness)),
                 prefix_length |-> UnwrapOr(pl.v, DefaultPrefixLength)])

\* FtsSearchParams::new(), used when no dict is given
FtsSearchParamsNew == [ctor |-> "new"]

\* What InvertedIndex::fuzzy_nq may answer once started
IndexOutcomes == {Ok("token counts"), Err("IOError")}

InitFuzzy ==
    /\ fuzzy = [op |-> "none"]
    /\ handles = <<>>
    /\ scorer = Merge(<<>>)
    /\ call = [op |-> "none"]
    /\ JniIdle

\* fuzzy_nq(tokens, params, partition_ids): lookups counts the index
\* lookups the call started
FuzzyNq(params, outcome) ==
    /\ fuzzy.op = "none"
    /\ LET fts == IF params.some THEN FtsParamsOf(params.v)
                  ELSE Ok(FtsSearchParamsNew)
       IN  fuzzy' = IF fts.ok
                    THEN [op |-> "fuzzy_nq", params |-> params, lookups |-> 1,
                          passed |-> fts.v, ret |-> outcome]
                    ELSE [op |-> "fuzzy_nq", params |-> params, lookups |-> 0,
                          ret |-> Err(fts.err)]

NextFuzzy ==
    /\ \E params \in {None} \cup {Some(d) : d \in PyDicts}, outcome \in IndexOutcomes :
          FuzzyNq(params, outcome)
    /\ UNCHANGED <<handles, scorer, call, stream, taken, emitted, jni>>

SpecFuzzy == InitFuzzy /\ [][NextFuzzy]_vars

\* A params value fuzzy_nq cannot read as the key's type
MalformedParam(key, o) ==
    IF key = "fuzziness"
    THEN ~(o.ty = "none" \/ (o.ty = "int" /\ o.v >= 0))
    ELSE ~(o.ty = "int" /\ o.v >= 0)

\* C8: fuzzy_nq with a params dict holding a malformed value returns an
\* error and starts no index lookup.
C8_MalformedParamsRejected ==
    (/\ fuzzy.op = "fuzzy_nq"
     /\ fuzzy.params.some
     /\ \E key \in DOMAIN fuzzy.params.v : MalformedParam(key, fuzzy.params.v[key])) =>
        /\ ~fuzzy.ret.ok
        /\ fuzzy.ret.err \in {"OverflowError", "TypeError"}
        /\ fuzzy.lookups = 0

\* A negative prefix_length beside a good max_expansions and fuzziness
C8_Witness ==
    /\ fuzzy.op = "fuzzy_nq"
    /\ fuzzy.params.some
    /\ DOMAIN fuzzy.params.v = ParamKeys
    /\ fuzzy.params.v["prefix_length"] = PyInt(-1)
    /\ fuzzy.params.v["max_expansions"] = PyInt(2)
    /\ fuzzy.params.v["fuzziness"] = PyNone
    /\ fuzzy.ret = Err("OverflowError")
    /\ fuzzy.lookups = 0

\* C9: with a params dict, a missing key takes its default whatever the
\* other keys are (max_expansions 50, fuzziness 0, prefix_length 0), a
\* fuzziness of None is passed on as the automatic value, and a key that is
\* present is passed on unchanged.
C9_ParamDefaults ==
    (/\ fuzzy.op = "fuzzy_nq"
     /\ fuzzy.params.some
     /\ \A key \in DOMAIN fuzzy.params.v : ~MalformedParam(key, fuzzy.params.v[key])) =>
        LET d == fuzzy.params.v
        IN  /\ fuzzy.lookups = 1
            /\ fuzzy.passed.max_expansions =
                  IF "max_expansions" \in DOMAIN d THEN d["max_expansions"].v ELSE 50
            /\ fuzzy.passed.prefix_length =
                  IF "prefix_length" \in DOMAIN d THEN d["prefix_length"].v ELSE 0
            /\ fuzzy.passed.fuzziness =
                  IF "fuzziness" \notin DOMAIN d THEN Some(0)
                  ELSE IF d["fuzziness"].ty = "none" THEN None
                  ELSE Some(d["fuzziness"].v)

\* Only prefix_length given: the other two keys take their defaults
C9_Witness ==
    /\ fuzzy.op = "fuzzy_nq"
    /\ fuzzy.params.some
    /\ DOMAIN fuzzy.params.v = {"prefix_length"}
    /\ fuzzy.params.v["prefix_length"] = PyInt(2)
    /\ fuzzy.lookups = 1
    /\ fuzzy.passed = [max_expansions |-> 50, fuzziness |-> Some(0), prefix_length |-> 2]

----------------------------------------------------------------------------
(* JniRecordBatchIteratorAdaptor (SpecJni)                                 *)

\* Width in bits of the row id integers of the model (u64 and i64 in the
\* code, narrowed here; the cast works the same at every width).
RowIdBits == 3

MaxRows == 1

MaxItems == 3

\* lance_core::ROW_ID
ROW_ID == "_rowid"

Field(name, type) == [name |-> name, type |-> type, nullable |-> TRUE]

\* The schemas of the wrapped streams: the row id first, last, absent, or
\* already signed
StreamSchemas ==
    {<<Field(ROW_ID, "UInt64"), Field("v", "Int32")>>,
     <<Field("v", "Int32"), Field(ROW_ID, "UInt64")>>,
     <<Field("v", "Int32")>>,
     <<Field(ROW_ID, "Int64"), Field("v", "Int32")>>}

\* The values an array of a type may hold in a row
ValuesOf(type) ==
    CASE type = "UInt64" -> 0..(2^RowIdBits - 1)
      [] type = "Int64" -> {-1, 1}
      [] type = "Int32" -> {7}

\* The arrays of a type and a number of rows
ArraysOf(type, rows) == [type : {type}, values : [1..rows -> ValuesOf(type)]]

\* The column lists of the first i fields of a schema
RECURSIVE Columns(_, _, _)
Columns(schema, rows, i) ==
    IF i = 0 THEN {<<>>}
    ELSE {Append(cols, a) : cols \in Columns(schema, rows, i - 1),
                            a \in ArraysOf(schema[i].type, rows)}

\* The record batches of a schema (a stream yields batches of its schema):
\* one array per field, of the field's type, all of one length
Batches(schema) ==
    UNION {{[schema |-> schema, columns |-> cols] :
                cols \in Columns(schema, rows, Len(schema))} :
           rows \in 0..MaxRows}

\* What polling the wrapped stream may give: a batch or an error
StreamItems(schema) == {Ok(b) : b \in Batches(schema)} \cup {Err("lance error")}

\* A cast that clamps to the largest i64 instead of wrapping
AsI64Saturating(v) ==
    IF v >= 2^(RowIdBits - 1) THEN 2^(RowIdBits - 1) - 1 ELSE v

\* `value as i64`: the same bits read as two's complement
AsI64(v) ==
    LET bit(i) == (v \div 2^i) % 2
        RECURSIVE low(_)
        low(i) == IF i < 0 THEN 0 ELSE bit(i) * 2^i + low(i - 1)
    IN  low(RowIdBits - 2) - bit(RowIdBits - 1) * 2^(RowIdBits - 1)

\* JniRecordBatchIteratorAdaptor::schema: _rowid UInt64 becomes Int64
JniSchema(schema) ==
    [i \in DOMAIN schema |->
        IF schema[i].name = ROW_ID
        THEN (IF schema[i].type = "UInt64"
              THEN Field(schema[i].name, "Int64")
              ELSE schema[i])
        ELSE schema[i]]

\* Schema::index_of
IndexOf(schema, name) ==
    IF \E i \in DOMAIN schema : schema[i].name = name
    THEN Ok(CHOOSE i \in DOMAIN schema :
                /\ schema[i].name = name
                /\ \A j \in DOMAIN schema : schema[j].name = name => i <= j)
    ELSE Err("not found")

\* RecordBatch::try_new: as many columns as fields, each of its field's
\* type, all of one length
TryNew(schema, columns) ==
    IF /\ Len(columns) = Len(schema)
       /\ \A i \in DOMAIN columns : columns[i].type = schema[i].type
       /\ \A i, j \in DOMAIN columns : Len(columns[i].values) = Len(columns[j].values)
    THEN Ok([schema |-> schema, columns |-> columns])
    ELSE Err("invalid batch")

Panic == [panic |-> TRUE]

Returned(item) == [panic |-> FALSE, item |-> item]

\* The closure next() maps over the polled item; adaptorSchema is self.schema
Convert(item, adaptorSchema) ==
    IF ~item.ok THEN Returned(Err("ExternalError"))
    ELSE LET batch == item.v
             index == IndexOf(batch.schema, ROW_ID)
         IN  IF ~index.ok THEN Returned(Ok(batch))
             ELSE IF batch.columns[index.v].type # "UInt64" THEN Panic
             ELSE LET int_values == [i \in DOMAIN batch.columns[index.v].values |->
                                        AsI64(batch.columns[index.v].values[i])]
                      new_columns == [batch.columns EXCEPT ![index.v] =
                                        [type |-> "Int64", values |-> int_values]]
                      made == TryNew(JniSchema(adaptorSchema), new_columns)
                  IN  IF made.ok THEN Returned(Ok(made.v)) ELSE Panic

\* to_ffi_jni_arrow_array_stream: the adaptor over a stream of some schema
InitJni ==
    /\ stream \in StreamSchemas
    /\ taken = [n |-> 0]
    /\ emitted = [n |-> 0]
    /\ jni = "running"
    /\ handles = <<>>
    /\ scorer = Merge(<<>>)
    /\ call = [op |-> "none"]
    /\ FuzzyIdle

\* next() when the wrapped stream yields an item
JniNext(item) ==
    /\ jni = "running"
    /\ taken.n < MaxItems
    /\ taken' = [n |-> taken.n + 1, last |-> item]
    /\ LET r == Convert(item, stream)
       IN  IF r.panic
           THEN jni' = "panicked" /\ UNCHANGED emitted
           ELSE /\ emitted' = [n |-> emitted.n + 1, last |-> r.item]
                /\ UNCHANGED jni
    /\ UNCHANGED stream

\* next() when the wrapped stream has ended: None
JniEnd ==
    /\ jni = "running"
    /\ jni' = "ended"
    /\ UNCHANGED <<stream, taken, emitted>>

NextJni ==
    /\ \/ \E item \in StreamItems(stream) : JniNext(item)
       \/ JniEnd
    /\ UNCHANGED <<handles, scorer, call, fuzzy>>

SpecJni == InitJni /\ [][NextJni]_vars

\* The position of the _rowid column of a batch, 0 when it has none
RowIdColumn(batch) ==
    IF \E i \in DOMAIN batch.schema : batch.schema[i].name = "_rowid"
    THEN CHOOSE i \in DOMAIN batch.schema : batch.schema[i].name = "_rowid"
    ELSE 0

====
